---- MODULE Spec2Model ----
(***************************************************************************)
(* react-hello-copilot: the root component App (a counter), the client-    *)
(* paginated PostsList and the server-paginated CommentList, as one state  *)
(* machine.  React state (useState) is the variables; a handler, an effect *)
(* or the continuation of an awaited fetch is one action.  Updates made in *)
(* one handler are batched (React 19), so an action is one commit.         *)
(***************************************************************************)
EXTENDS Integers, Sequences, FiniteSets, TLC

(* ------------------------------ bounds -------------------------------- *)
\* Requests one list view may issue in a run (caps the request counters).
MaxRequests == 3
\* Largest collection the posts endpoint returns in a run.
MaxPosts == 32
\* Largest value the root counter is driven to.
MaxCount == 3
\* Largest totalPages the pagination window is applied to in SpecWindow.
MaxTotalPages == 55

(* ------------------------- program constants -------------------------- *)
postsPerPage == 10
commentsPerPage == 10
totalComments == 500
maxPagesToShow == 5
\* useState(null): no error.
null == "null"

VARIABLES
  \* PostsList (useState, src/src/App.jsx 244-247)
  allPosts, postsCurrentPage, postsLoading, postsError,
  \* PostsList: fetches awaiting their response, requests issued so far,
  \* and whether the mount effect is still to run
  postsInFlight, postsRequests, postsEffect,
  \* CommentList (useState, src/unnamed/part_001 33-36)
  comments, commentsCurrentPage, commentsLoading, commentsError,
  \* CommentList: fetches awaiting their response, requests issued so far,
  \* and whether the [currentPage] effect is still to run
  commentsInFlight, commentsRequests, commentsEffect,
  \* App (useState, src/src/App.jsx 34)
  count,
  \* history: refresh/retry activations, page changes, the last settled
  \* request of each view, increments since the last reset
  postsRefreshes, commentsRefreshes, commentsPageChanges,
  postsLastSettled, commentsLastSettled, incrementsSinceReset,
  \* the pagination window applied to free inputs (SpecWindow)
  winCurrentPage, winTotalPages, winResult, winControls, winDone

postsVars == <<allPosts, postsCurrentPage, postsLoading, postsError>>
postsNet == <<postsInFlight, postsRequests, postsEffect>>
commentsVars == <<comments, commentsCurrentPage, commentsLoading, commentsError>>
commentsNet == <<commentsInFlight, commentsRequests, commentsEffect>>
histVars == <<postsRefreshes, commentsRefreshes, commentsPageChanges,
              postsLastSettled, commentsLastSettled, incrementsSinceReset>>
winVars == <<winCurrentPage, winTotalPages, winResult, winControls, winDone>>
vars == <<postsVars, postsNet, commentsVars, commentsNet, count, histVars, winVars>>

(* ------------------------------ helpers ------------------------------- *)
Max(a, b) == IF a >= b THEN a ELSE b
Min(a, b) == IF a <= b THEN a ELSE b

\* Math.ceil(n / d) for n >= 0, d > 0.
CeilDiv(n, d) == IF n % d = 0 THEN n \div d ELSE (n \div d) + 1

\* Array.prototype.slice(begin, end): negative indices count from the end,
\* both are clamped to the array, an empty range gives [].
Slice(arr, begin, end) ==
  LET len == Len(arr)
      k == IF begin < 0 THEN Max(len + begin, 0) ELSE Min(begin, len)
      final == IF end < 0 THEN Max(len + end, 0) ELSE Min(end, len)
      n == Max(final - k, 0)
  IN [i \in 1..n |-> arr[k + i]]

\* The integers lo..hi as an array, [] when hi < lo.
Range(lo, hi) == [i \in 1..Max(hi - lo + 1, 0) |-> lo + i - 1]

(* ------------------------- pagination window -------------------------- *)
\* getPageNumbers of both list views (the same code twice).
\* Mutant: the window is not pulled back when it runs into the last page.
getPageNumbers_noAdjust(currentPage, totalPages) ==
  LET startPage == Max(1, currentPage - (maxPagesToShow \div 2))
      endPage == Min(totalPages, startPage + maxPagesToShow - 1)
  IN Range(startPage, endPage)

getPageNumbers(currentPage, totalPages) ==
  LET startPage0 == Max(1, currentPage - (maxPagesToShow \div 2))
      endPage == Min(totalPages, startPage0 + maxPagesToShow - 1)
      startPage == IF endPage - startPage0 + 1 < maxPagesToShow
                   THEN Max(1, endPage - maxPagesToShow + 1)
                   ELSE startPage0
  IN Range(startPage, endPage)

(* ------------------------------ network ------------------------------- *)
postsUrl == "https://jsonplaceholder.typicode.com/posts"
commentsUrl == "https://jsonplaceholder.typicode.com/comments"

\* What a fetch can settle with: an HTTP response (status, parsed body) or
\* a rejection of the fetch promise (transport failure).
HttpResponse(status, data) == [kind |-> "response", status |-> status, data |-> data]
Rejection == [kind |-> "rejected", status |-> 0, data |-> <<>>]
\* response.ok
ResponseOk(res) == res.status >= 200 /\ res.status <= 299
\* err.message in the catch block: `Error: ${response.status}` for a
\* response that is not ok, the TypeError's message for a rejected fetch.
ErrorMessage(res) ==
  IF res.kind = "rejected" THEN "Failed to fetch"
  ELSE IF res.status = 500 THEN "Error: 500"
  ELSE IF res.status = 404 THEN "Error: 404"
  ELSE "Error: other"
\* Takes the try branch to its end (no throw).
Succeeds(res) == res.kind = "response" /\ ResponseOk(res)

\* The posts endpoint returns the whole collection, whatever its size is
\* at the time: posts 1..n.
PostCounts == {0, 1, postsPerPage, postsPerPage + 1, 25, MaxPosts}
PostsResponses ==
  {HttpResponse(200, Range(1, n)) : n \in PostCounts}
    \cup {HttpResponse(500, <<>>), Rejection}

\* The comments endpoint honours _start and _limit over its 500 records.
CommentsResponses(req) ==
  {HttpResponse(200, Range(req.start + 1, Min(req.start + req.limit, totalComments))),
   HttpResponse(500, <<>>), Rejection}

(* ----------------------------- PostsList ------------------------------ *)
indexOfLastPost == postsCurrentPage * postsPerPage
\* Mutant: the first index is one too far.
indexOfFirstPost_offByOne == indexOfLastPost - postsPerPage + 1
indexOfFirstPost == indexOfLastPost - postsPerPage
currentPosts == Slice(allPosts, indexOfFirstPost, indexOfLastPost)
postsTotalPages == CeilDiv(Len(allPosts), postsPerPage)

\* fetchPosts up to its await: the request leaves.
PostsList_fetchPosts ==
  /\ postsLoading' = TRUE
  /\ postsError' = null
  /\ postsRequests' = postsRequests + 1
  /\ postsInFlight' = postsInFlight \cup {[id |-> postsRequests + 1, url |-> postsUrl]}
  /\ UNCHANGED <<allPosts, postsCurrentPage>>

\* Mutant: a successful fetch does not go back to page 1.
PostsList_fetchPostsSettled_noReset(req, res) ==
  /\ postsInFlight' = postsInFlight \ {req}
  /\ IF Succeeds(res)
     THEN /\ allPosts' = res.data
          /\ UNCHANGED <<postsCurrentPage, postsError>>
     ELSE /\ postsError' = ErrorMessage(res)
          /\ UNCHANGED <<allPosts, postsCurrentPage>>
  /\ postsLoading' = FALSE
  /\ UNCHANGED <<postsRequests, postsEffect>>

\* Mutant: the catch block also empties the list.
PostsList_fetchPostsSettled_clearOnError(req, res) ==
  /\ postsInFlight' = postsInFlight \ {req}
  /\ IF Succeeds(res)
     THEN /\ allPosts' = res.data
          /\ postsCurrentPage' = 1
          /\ UNCHANGED postsError
     ELSE /\ postsError' = ErrorMessage(res)
          /\ allPosts' = <<>>
          /\ UNCHANGED postsCurrentPage
  /\ postsLoading' = FALSE
  /\ UNCHANGED <<postsRequests, postsEffect>>

\* Mutant: setLoading(false) sits at the end of the try block instead of in
\* finally, so a failed fetch leaves the spinner up.
PostsList_fetchPostsSettled_noFinally(req, res) ==
  /\ postsInFlight' = postsInFlight \ {req}
  /\ IF Succeeds(res)
     THEN /\ allPosts' = res.data
          /\ postsCurrentPage' = 1
          /\ postsLoading' = FALSE
          /\ UNCHANGED postsError
     ELSE /\ postsError' = ErrorMessage(res)
          /\ UNCHANGED <<allPosts, postsCurrentPage, postsLoading>>
  /\ UNCHANGED <<postsRequests, postsEffect>>

\* fetchPosts from its await on: try / catch / finally.
PostsList_fetchPostsSettled(req, res) ==
  /\ postsInFlight' = postsInFlight \ {req}
  /\ IF Succeeds(res)
     THEN /\ allPosts' = res.data
          /\ postsCurrentPage' = 1
          /\ UNCHANGED postsError
     ELSE /\ postsError' = ErrorMessage(res)
          /\ UNCHANGED <<allPosts, postsCurrentPage>>
  /\ postsLoading' = FALSE
  /\ UNCHANGED <<postsRequests, postsEffect>>

\* useEffect(() => { fetchPosts() }, []): once, after the first render.
PostsList_mountEffect ==
  /\ postsEffect
  /\ postsEffect' = FALSE
  /\ PostsList_fetchPosts

PostsList_handleRefresh ==
  /\ PostsList_fetchPosts
  /\ UNCHANGED postsEffect

\* Mutant: a page change refetches, as in the server-paginated list.
PostsList_goToPage_refetch(pageNumber) ==
  /\ postsCurrentPage' = pageNumber
  /\ postsLoading' = TRUE
  /\ postsError' = null
  /\ postsRequests' = postsRequests + 1
  /\ postsInFlight' = postsInFlight \cup {[id |-> postsRequests + 1, url |-> postsUrl]}
  /\ UNCHANGED <<allPosts, postsEffect>>

PostsList_goToPage(pageNumber) ==
  /\ postsCurrentPage' = pageNumber
  /\ UNCHANGED <<allPosts, postsLoading, postsError, postsNet>>

\* Mutant: "Anterior" also raises the loading flag.
PostsList_goToPreviousPage_loading ==
  /\ IF postsCurrentPage > 1
     THEN postsCurrentPage' = postsCurrentPage - 1
     ELSE UNCHANGED postsCurrentPage
  /\ postsLoading' = TRUE
  /\ UNCHANGED <<allPosts, postsError, postsNet>>

PostsList_goToPreviousPage ==
  /\ IF postsCurrentPage > 1
     THEN postsCurrentPage' = postsCurrentPage - 1
     ELSE UNCHANGED postsCurrentPage
  /\ UNCHANGED <<allPosts, postsLoading, postsError, postsNet>>

PostsList_goToNextPage ==
  /\ IF postsCurrentPage < postsTotalPages
     THEN postsCurrentPage' = postsCurrentPage + 1
     ELSE UNCHANGED postsCurrentPage
  /\ UNCHANGED <<allPosts, postsLoading, postsError, postsNet>>

\* `if (error)`: null and the empty string are falsy.
Truthy(e) == e # null /\ e # ""

\* Mutant: the error branch does not return, the list follows the alert.
PostsList_render_noReturn ==
  IF postsLoading THEN {"spinner"}
  ELSE (IF Truthy(postsError) THEN {"alert", "retry"} ELSE {})
         \cup {"summary", "refresh", "items"}
         \cup (IF postsTotalPages > 1 THEN {"pagination"} ELSE {})
         \cup (IF Len(allPosts) = 0 /\ ~postsLoading THEN {"empty"} ELSE {})

\* What the component returns: the loading branch, the error branch, or
\* the list with its summary, refresh button, pagination and empty notice.
PostsList_render ==
  IF postsLoading THEN {"spinner"}
  ELSE IF Truthy(postsError) THEN {"alert", "retry"}
  ELSE {"summary", "refresh", "items"}
         \cup (IF postsTotalPages > 1 THEN {"pagination"} ELSE {})
         \cup (IF Len(allPosts) = 0 /\ ~postsLoading THEN {"empty"} ELSE {})

\* The summary line: "Mostrando {first}-{last} de {total} posts".
PostsList_summary ==
  <<indexOfFirstPost + 1, Min(indexOfLastPost, Len(allPosts)), Len(allPosts)>>

\* The <li> elements of the pagination block, of both list views (the
\* same JSX twice): kind names the JSX expression that renders the element.
PageItem(kind, page, active, disabled) ==
  [kind |-> kind, page |-> page, active |-> active, disabled |-> disabled]
Ellipsis == PageItem("ellipsis", 0, FALSE, TRUE)

\* Mutant: the page-1 button is rendered whatever the window starts with.
pagination_alwaysFirst(currentPage, totalPages) ==
  LET w == getPageNumbers(currentPage, totalPages)
  IN IF ~(totalPages > 1) THEN <<>>
     ELSE <<PageItem("previous", 0, FALSE, currentPage = 1)>>
          \o (<<PageItem("first", 1, FALSE, FALSE)>>
                \o (IF w[1] > 2 THEN <<Ellipsis>> ELSE <<>>))
          \o [i \in 1..Len(w) |-> PageItem("number", w[i], currentPage = w[i], FALSE)]
          \o (IF w[Len(w)] < totalPages
              THEN (IF w[Len(w)] < totalPages - 1 THEN <<Ellipsis>> ELSE <<>>)
                     \o <<PageItem("last", totalPages, FALSE, FALSE)>>
              ELSE <<>>)
          \o <<PageItem("next", 0, FALSE, currentPage = totalPages)>>

\* {totalPages > 1 && (<nav> ... </nav>)}: "Anterior", the first page and
\* an ellipsis if the window does not show them, the window, an ellipsis
\* and the last page likewise, "Siguiente".
pagination(currentPage, totalPages) ==
  LET w == getPageNumbers(currentPage, totalPages)
  IN IF ~(totalPages > 1) THEN <<>>
     ELSE <<PageItem("previous", 0, FALSE, currentPage = 1)>>
          \o (IF w[1] > 1
              THEN <<PageItem("first", 1, FALSE, FALSE)>>
                     \o (IF w[1] > 2 THEN <<Ellipsis>> ELSE <<>>)
              ELSE <<>>)
          \o [i \in 1..Len(w) |-> PageItem("number", w[i], currentPage = w[i], FALSE)]
          \o (IF w[Len(w)] < totalPages
              THEN (IF w[Len(w)] < totalPages - 1 THEN <<Ellipsis>> ELSE <<>>)
                     \o <<PageItem("last", totalPages, FALSE, FALSE)>>
              ELSE <<>>)
          \o <<PageItem("next", 0, FALSE, currentPage = totalPages)>>

\* The page numbers that have a button: page 1 when the window starts
\* above it, the window, the last page when the window ends below it.
PageButtons(currentPage, totalPages) ==
  LET w == getPageNumbers(currentPage, totalPages)
  IN IF Len(w) = 0 THEN {}
     ELSE (IF w[1] > 1 THEN {1} ELSE {})
            \cup {w[i] : i \in 1..Len(w)}
            \cup (IF w[Len(w)] < totalPages THEN {totalPages} ELSE {})

PostsList_pageButtons ==
  IF "pagination" \in PostsList_render
  THEN PageButtons(postsCurrentPage, postsTotalPages)
  ELSE {}

(* ---------------------------- CommentList ----------------------------- *)
commentsTotalPages == CeilDiv(totalComments, commentsPerPage)

\* Mutant: _start is computed from page instead of page - 1.
CommentList_fetchComments_offByPage(page) ==
  LET start == page * commentsPerPage
  IN /\ commentsLoading' = TRUE
     /\ commentsError' = null
     /\ commentsRequests' = commentsRequests + 1
     /\ commentsInFlight' = commentsInFlight \cup
          {[id |-> commentsRequests + 1, url |-> commentsUrl,
            start |-> start, limit |-> commentsPerPage]}
     /\ UNCHANGED <<comments, commentsCurrentPage>>

\* fetchComments(page) up to its await: the request leaves with
\* _start=${start}&_limit=${commentsPerPage}.
CommentList_fetchComments(page) ==
  LET start == (page - 1) * commentsPerPage
  IN /\ commentsLoading' = TRUE
     /\ commentsError' = null
     /\ commentsRequests' = commentsRequests + 1
     /\ commentsInFlight' = commentsInFlight \cup
          {[id |-> commentsRequests + 1, url |-> commentsUrl,
            start |-> start, limit |-> commentsPerPage]}
     /\ UNCHANGED <<comments, commentsCurrentPage>>

\* Mutant: a completion that is not the latest request's is dropped.
CommentList_fetchCommentsSettled_latestOnly(req, res) ==
  /\ commentsInFlight' = commentsInFlight \ {req}
  /\ IF req.id # commentsRequests
     THEN UNCHANGED <<comments, commentsError, commentsLoading>>
     ELSE /\ IF Succeeds(res)
             THEN /\ comments' = res.data
                  /\ UNCHANGED commentsError
             ELSE /\ commentsError' = ErrorMessage(res)
                  /\ UNCHANGED comments
          /\ commentsLoading' = FALSE
  /\ UNCHANGED <<commentsCurrentPage, commentsRequests, commentsEffect>>

\* Mutant: the catch block sends the failed request again.
CommentList_fetchCommentsSettled_retry(req, res) ==
  /\ IF Succeeds(res)
     THEN /\ comments' = res.data
          /\ commentsLoading' = FALSE
          /\ commentsInFlight' = commentsInFlight \ {req}
          /\ UNCHANGED <<commentsError, commentsRequests>>
     ELSE /\ commentsError' = null
          /\ commentsLoading' = TRUE
          /\ commentsRequests' = commentsRequests + 1
          /\ commentsInFlight' = (commentsInFlight \ {req}) \cup
               {[id |-> commentsRequests + 1, url |-> req.url,
                 start |-> req.start, limit |-> req.limit]}
          /\ UNCHANGED comments
  /\ UNCHANGED <<commentsCurrentPage, commentsEffect>>

\* fetchComments from its await on: try / catch / finally.
CommentList_fetchCommentsSettled(req, res) ==
  /\ commentsInFlight' = commentsInFlight \ {req}
  /\ IF Succeeds(res)
     THEN /\ comments' = res.data
          /\ UNCHANGED commentsError
     ELSE /\ commentsError' = ErrorMessage(res)
          /\ UNCHANGED comments
  /\ commentsLoading' = FALSE
  /\ UNCHANGED <<commentsCurrentPage, commentsRequests, commentsEffect>>

\* useEffect(() => { fetchComments(currentPage) }, [currentPage]): after
\* the first render and after every render in which currentPage changed.
CommentList_pageEffect ==
  /\ commentsEffect
  /\ commentsEffect' = FALSE
  /\ CommentList_fetchComments(commentsCurrentPage)

\* setCurrentPage(p): a new value re-renders and so schedules the effect,
\* the same value bails out.
\* Mutant: the effect runs after every setCurrentPage, changed or not.
CommentList_setCurrentPage_always(p) ==
  /\ commentsCurrentPage' = p
  /\ commentsEffect' = TRUE
  /\ UNCHANGED <<comments, commentsLoading, commentsError,
                 commentsInFlight, commentsRequests>>

CommentList_setCurrentPage(p) ==
  /\ commentsCurrentPage' = p
  /\ commentsEffect' = (commentsEffect \/ p # commentsCurrentPage)
  /\ UNCHANGED <<comments, commentsLoading, commentsError,
                 commentsInFlight, commentsRequests>>

CommentList_goToPage(pageNumber) ==
  IF pageNumber >= 1 /\ pageNumber <= commentsTotalPages
  THEN CommentList_setCurrentPage(pageNumber)
  ELSE UNCHANGED <<commentsVars, commentsNet>>

CommentList_goToPreviousPage ==
  IF commentsCurrentPage > 1
  THEN CommentList_setCurrentPage(commentsCurrentPage - 1)
  ELSE UNCHANGED <<commentsVars, commentsNet>>

CommentList_goToNextPage ==
  IF commentsCurrentPage < commentsTotalPages
  THEN CommentList_setCurrentPage(commentsCurrentPage + 1)
  ELSE UNCHANGED <<commentsVars, commentsNet>>

\* Mutant: fetchComments() without its argument, so the default page 1.
CommentList_handleRefresh_firstPage ==
  /\ CommentList_fetchComments(1)
  /\ UNCHANGED commentsEffect

CommentList_handleRefresh ==
  /\ CommentList_fetchComments(commentsCurrentPage)
  /\ UNCHANGED commentsEffect

\* Mutant: the loading branch does not return, the spinner sits above the
\* list and its controls.
CommentList_render_noLoadingReturn ==
  (IF commentsLoading THEN {"spinner"} ELSE {})
    \cup (IF Truthy(commentsError) THEN {"alert", "retry"}
          ELSE {"summary", "refresh", "items"}
                 \cup (IF commentsTotalPages > 1 THEN {"pagination"} ELSE {})
                 \cup (IF Len(comments) = 0 /\ ~commentsLoading THEN {"empty"} ELSE {}))

\* What the component returns: the loading branch, the error branch, or
\* the list with its summary, refresh button, pagination and empty notice.
CommentList_render ==
  IF commentsLoading THEN {"spinner"}
  ELSE IF Truthy(commentsError) THEN {"alert", "retry"}
  ELSE {"summary", "refresh", "items"}
         \cup (IF commentsTotalPages > 1 THEN {"pagination"} ELSE {})
         \cup (IF Len(comments) = 0 /\ ~commentsLoading THEN {"empty"} ELSE {})

CommentList_pageButtons ==
  IF "pagination" \in CommentList_render
  THEN PageButtons(commentsCurrentPage, commentsTotalPages)
  ELSE {}

(* -------------------------------- App --------------------------------- *)
\* Mutant: the increment adds 2.
App_increment_byTwo == count' = count + 2
\* onClick={() => setCount(count + 1)}
App_increment == count' = count + 1
\* onClick={() => setCount(0)}
App_reset == count' = 0

(* --------------------------- initial state ---------------------------- *)
\* The first render of App: both lists show their loading branch and
\* their mount effects are still to run.
InitProgram ==
  /\ allPosts = <<>> /\ postsCurrentPage = 1
  /\ postsLoading = TRUE /\ postsError = null
  /\ postsInFlight = {} /\ postsRequests = 0 /\ postsEffect = TRUE
  /\ comments = <<>> /\ commentsCurrentPage = 1
  /\ commentsLoading = TRUE /\ commentsError = null
  /\ commentsInFlight = {} /\ commentsRequests = 0 /\ commentsEffect = TRUE
  /\ count = 0
  /\ postsRefreshes = 0 /\ commentsRefreshes = 0 /\ commentsPageChanges = 0
  /\ postsLastSettled = <<>> /\ commentsLastSettled = <<>>
  /\ incrementsSinceReset = 0

Init ==
  /\ InitProgram
  /\ winCurrentPage = 1 /\ winTotalPages = 1 /\ winResult = <<>>
  /\ winControls = <<>> /\ winDone = FALSE

\* Effects of a commit run before the next event or promise continuation.
Idle == ~postsEffect /\ ~commentsEffect

FramePosts ==
  UNCHANGED <<commentsVars, commentsNet, count, commentsRefreshes,
              commentsPageChanges, commentsLastSettled, incrementsSinceReset, winVars>>
FrameComments ==
  UNCHANGED <<postsVars, postsNet, count, postsRefreshes, postsLastSettled,
              incrementsSinceReset, winVars>>
\* Mutant: the counter's render takes PostsList back to its first page.
FrameApp_firstPage ==
  /\ postsCurrentPage' = 1
  /\ UNCHANGED <<allPosts, postsLoading, postsError, postsNet, commentsVars,
                 commentsNet, postsRefreshes, commentsRefreshes, commentsPageChanges,
                 postsLastSettled, commentsLastSettled, winVars>>

FrameApp ==
  UNCHANGED <<postsVars, postsNet, commentsVars, commentsNet, postsRefreshes,
              commentsRefreshes, commentsPageChanges, postsLastSettled,
              commentsLastSettled, winVars>>

(* ------------------- steps common to Spec and SpecCall ---------------- *)
PostsMount ==
  /\ PostsList_mountEffect
  /\ UNCHANGED <<postsRefreshes, postsLastSettled>>
  /\ FramePosts

PostsSettle ==
  /\ Idle
  /\ \E req \in postsInFlight, res \in PostsResponses :
       /\ PostsList_fetchPostsSettled(req, res)
       /\ postsLastSettled' = <<[req |-> req, res |-> res]>>
  /\ UNCHANGED postsRefreshes
  /\ FramePosts

CommentsEffect ==
  /\ CommentList_pageEffect
  /\ UNCHANGED <<commentsRefreshes, commentsPageChanges, commentsLastSettled>>
  /\ FrameComments

CommentsSettle ==
  /\ Idle
  /\ \E req \in commentsInFlight :
       \E res \in CommentsResponses(req) :
         /\ CommentList_fetchCommentsSettled(req, res)
         /\ commentsLastSettled' = <<[req |-> req, res |-> res]>>
  /\ UNCHANGED <<commentsRefreshes, commentsPageChanges>>
  /\ FrameComments

Increment ==
  /\ Idle
  /\ count < MaxCount
  /\ App_increment
  /\ incrementsSinceReset' = incrementsSinceReset + 1
  /\ FrameApp

Reset ==
  /\ Idle
  /\ App_reset
  /\ incrementsSinceReset' = 0
  /\ FrameApp

\* History of a CommentList navigation step: did currentPage change.
CommentsNavHistory ==
  /\ commentsPageChanges' =
       commentsPageChanges + (IF commentsCurrentPage' # commentsCurrentPage THEN 1 ELSE 0)
  /\ UNCHANGED <<commentsRefreshes, commentsLastSettled>>

(* ------------- Spec: the user acts through what is rendered ----------- *)
PostsClickPage ==
  /\ Idle
  /\ \E n \in PostsList_pageButtons : PostsList_goToPage(n)
  /\ UNCHANGED <<postsRefreshes, postsLastSettled>>
  /\ FramePosts

\* "Anterior" is disabled on page 1.
PostsClickPrevious ==
  /\ Idle
  /\ "pagination" \in PostsList_render
  /\ postsCurrentPage # 1
  /\ PostsList_goToPreviousPage
  /\ UNCHANGED <<postsRefreshes, postsLastSettled>>
  /\ FramePosts

\* "Siguiente" is disabled on the last page.
PostsClickNext ==
  /\ Idle
  /\ "pagination" \in PostsList_render
  /\ postsCurrentPage # postsTotalPages
  /\ PostsList_goToNextPage
  /\ UNCHANGED <<postsRefreshes, postsLastSettled>>
  /\ FramePosts

\* "Actualizar" of the list branch, "Intentar de nuevo" of the error branch.
PostsClickRefresh ==
  /\ Idle
  /\ {"refresh", "retry"} \cap PostsList_render # {}
  /\ postsRequests < MaxRequests
  /\ PostsList_handleRefresh
  /\ postsRefreshes' = postsRefreshes + 1
  /\ UNCHANGED postsLastSettled
  /\ FramePosts

CommentsClickPage ==
  /\ Idle
  /\ commentsRequests < MaxRequests
  /\ \E n \in CommentList_pageButtons : CommentList_goToPage(n)
  /\ CommentsNavHistory
  /\ FrameComments

CommentsClickPrevious ==
  /\ Idle
  /\ commentsRequests < MaxRequests
  /\ "pagination" \in CommentList_render
  /\ commentsCurrentPage # 1
  /\ CommentList_goToPreviousPage
  /\ CommentsNavHistory
  /\ FrameComments

CommentsClickNext ==
  /\ Idle
  /\ commentsRequests < MaxRequests
  /\ "pagination" \in CommentList_render
  /\ commentsCurrentPage # commentsTotalPages
  /\ CommentList_goToNextPage
  /\ CommentsNavHistory
  /\ FrameComments

CommentsClickRefresh ==
  /\ Idle
  /\ {"refresh", "retry"} \cap CommentList_render # {}
  /\ commentsRequests < MaxRequests
  /\ CommentList_handleRefresh
  /\ commentsRefreshes' = commentsRefreshes + 1
  /\ UNCHANGED <<commentsPageChanges, commentsLastSettled>>
  /\ FrameComments

Next ==
  \/ PostsMount \/ PostsSettle
  \/ PostsClickPage \/ PostsClickPrevious \/ PostsClickNext \/ PostsClickRefresh
  \/ CommentsEffect \/ CommentsSettle
  \/ CommentsClickPage \/ CommentsClickPrevious \/ CommentsClickNext
  \/ CommentsClickRefresh
  \/ Increment \/ Reset

Spec == Init /\ [][Next]_vars

(* ------ SpecCall*: the handlers called as functions, any argument ---- *)
\* The page numbers a caller may pass: those with a button, and the two
\* just outside [1, totalPages].
NavArgs(currentPage, totalPages) ==
  {0, totalPages + 1} \cup PageButtons(currentPage, totalPages)

CallPostsGoToPage ==
  /\ Idle
  /\ \E n \in NavArgs(postsCurrentPage, postsTotalPages) : PostsList_goToPage(n)
  /\ UNCHANGED <<postsRefreshes, postsLastSettled>>
  /\ FramePosts

CallPostsGoToPreviousPage ==
  /\ Idle
  /\ PostsList_goToPreviousPage
  /\ UNCHANGED <<postsRefreshes, postsLastSettled>>
  /\ FramePosts

CallPostsGoToNextPage ==
  /\ Idle
  /\ PostsList_goToNextPage
  /\ UNCHANGED <<postsRefreshes, postsLastSettled>>
  /\ FramePosts

CallPostsHandleRefresh ==
  /\ Idle
  /\ postsRequests < MaxRequests
  /\ PostsList_handleRefresh
  /\ postsRefreshes' = postsRefreshes + 1
  /\ UNCHANGED postsLastSettled
  /\ FramePosts

CallCommentsGoToPage ==
  /\ Idle
  /\ commentsRequests < MaxRequests
  /\ \E n \in NavArgs(commentsCurrentPage, commentsTotalPages) : CommentList_goToPage(n)
  /\ CommentsNavHistory
  /\ FrameComments

CallCommentsGoToPreviousPage ==
  /\ Idle
  /\ commentsRequests < MaxRequests
  /\ CommentList_goToPreviousPage
  /\ CommentsNavHistory
  /\ FrameComments

CallCommentsGoToNextPage ==
  /\ Idle
  /\ commentsRequests < MaxRequests
  /\ CommentList_goToNextPage
  /\ CommentsNavHistory
  /\ FrameComments

CallCommentsHandleRefresh ==
  /\ Idle
  /\ commentsRequests < MaxRequests
  /\ CommentList_handleRefresh
  /\ commentsRefreshes' = commentsRefreshes + 1
  /\ UNCHANGED <<commentsPageChanges, commentsLastSettled>>
  /\ FrameComments

\* PostsList's handlers called freely; CommentList only mounts.
NextCallPosts ==
  \/ PostsMount \/ PostsSettle
  \/ CallPostsGoToPage \/ CallPostsGoToPreviousPage \/ CallPostsGoToNextPage
  \/ CallPostsHandleRefresh
  \/ CommentsEffect

SpecCallPosts == Init /\ [][NextCallPosts]_vars

\* CommentList's handlers called freely; PostsList only mounts.
NextCallComments ==
  \/ CommentsEffect \/ CommentsSettle
  \/ CallCommentsGoToPage \/ CallCommentsGoToPreviousPage
  \/ CallCommentsGoToNextPage \/ CallCommentsHandleRefresh
  \/ PostsMount

SpecCallComments == Init /\ [][NextCallComments]_vars

(* ---- SpecOverlap: refreshes and page changes while fetches are out --- *)
\* handleRefresh of PostsList and goToNextPage of CommentList called
\* whatever is rendered, so that fetches of one view overlap.
NextOverlap ==
  \/ PostsMount \/ PostsSettle \/ CallPostsHandleRefresh
  \/ CommentsEffect \/ CommentsSettle
  \/ CallCommentsGoToNextPage

SpecOverlap == Init /\ [][NextOverlap]_vars

(* -- SpecWindow: getPageNumbers and the pagination block on valid input - *)
InitWindow ==
  /\ InitProgram
  /\ winTotalPages \in 1..MaxTotalPages
  /\ winCurrentPage \in 1..winTotalPages
  /\ winResult = <<>>
  /\ winControls = <<>>
  /\ winDone = FALSE

WindowCall ==
  /\ ~winDone
  /\ winResult' = getPageNumbers(winCurrentPage, winTotalPages)
  /\ winControls' = pagination(winCurrentPage, winTotalPages)
  /\ winDone' = TRUE
  /\ UNCHANGED <<postsVars, postsNet, commentsVars, commentsNet, count, histVars,
                 winCurrentPage, winTotalPages>>

NextWindow == WindowCall

SpecWindow == InitWindow /\ [][NextWindow]_vars

(* ============================== claims ================================ *)

\* C1: for every totalPages >= 1 and currentPage in [1, totalPages],
\* getPageNumbers returns a contiguous ascending range of length
\* min(5, totalPages), inside [1, totalPages], that contains currentPage.
C1_WindowRange ==
  winDone =>
    /\ Len(winResult) = Min(5, winTotalPages)
    /\ \A i \in 1..(Len(winResult) - 1) : winResult[i + 1] = winResult[i] + 1
    /\ \A i \in 1..Len(winResult) : winResult[i] >= 1 /\ winResult[i] <= winTotalPages
    /\ \E i \in 1..Len(winResult) : winResult[i] = winCurrentPage

\* The window of the last of 50 pages is 46..50.
C1_Witness ==
  /\ winDone /\ winTotalPages = 50 /\ winCurrentPage = 50
  /\ winResult = <<46, 47, 48, 49, 50>>

\* C2: PostsList issues one request at mount, none on page navigation, and
\* one more per refresh/retry: requests issued (the mount's counted while
\* its effect is still to run) = 1 + refresh/retry activations.
C2_PostsRequests ==
  postsRequests + (IF postsEffect THEN 1 ELSE 0) = 1 + postsRefreshes

\* Page 3 of 25 posts reached by navigation, with the mount's request the
\* only one issued.
C2_Witness ==
  /\ postsRequests = 1 /\ postsRefreshes = 0 /\ postsInFlight = {}
  /\ Len(allPosts) = 25 /\ postsCurrentPage = 3

\* C3: CommentList issues one request for the mount, one per navigation
\* that changes currentPage and one per refresh, and none for a navigation
\* that leaves currentPage unchanged (a request whose effect is still to
\* run is counted).
C3_CommentsRequests ==
  commentsRequests + (IF commentsEffect THEN 1 ELSE 0)
    = 1 + commentsPageChanges + commentsRefreshes

\* Mount, one page change and one refresh: three requests, the last in flight.
C3_Witness ==
  /\ commentsRequests = 3 /\ commentsPageChanges = 1 /\ commentsRefreshes = 1
  /\ commentsCurrentPage = 50 /\ commentsInFlight # {}

\* C4: in both list views the navigation functions leave the component
\* state unchanged when asked for page 0, for page totalPages + 1, for
\* "previous" on page 1 and for "next" on the last page.
C4_NavigationNoOps ==
  [][ /\ \A n \in {0, postsTotalPages + 1} :
           PostsList_goToPage(n) => UNCHANGED <<postsVars, postsNet>>
      /\ (postsCurrentPage = 1 /\ PostsList_goToPreviousPage)
           => UNCHANGED <<postsVars, postsNet>>
      /\ (postsCurrentPage = postsTotalPages /\ PostsList_goToNextPage)
           => UNCHANGED <<postsVars, postsNet>>
      /\ \A n \in {0, commentsTotalPages + 1} :
           CommentList_goToPage(n) => UNCHANGED <<commentsVars, commentsNet>>
      /\ (commentsCurrentPage = 1 /\ CommentList_goToPreviousPage)
           => UNCHANGED <<commentsVars, commentsNet>>
      /\ (commentsCurrentPage = commentsTotalPages /\ CommentList_goToNextPage)
           => UNCHANGED <<commentsVars, commentsNet>>
    ]_vars

\* The CommentList half of C4 alone (it holds under SpecCallComments).
C4_CommentListNoOps ==
  [][ /\ \A n \in {0, commentsTotalPages + 1} :
           CommentList_goToPage(n) => UNCHANGED <<commentsVars, commentsNet>>
      /\ (commentsCurrentPage = 1 /\ CommentList_goToPreviousPage)
           => UNCHANGED <<commentsVars, commentsNet>>
      /\ (commentsCurrentPage = commentsTotalPages /\ CommentList_goToNextPage)
           => UNCHANGED <<commentsVars, commentsNet>>
    ]_vars

\* C5 as stated: in both list views currentPage is never below 1 and never
\* above totalPages.
C5_PageInRange_AsStated ==
  /\ postsCurrentPage >= 1 /\ postsCurrentPage <= postsTotalPages
  /\ commentsCurrentPage >= 1 /\ commentsCurrentPage <= commentsTotalPages

\* C5 as amended: in both list views currentPage is never below 1, and
\* never above totalPages unless totalPages is 0, where it is 1.
C5_PageInRange ==
  /\ postsCurrentPage >= 1 /\ postsCurrentPage <= Max(1, postsTotalPages)
  /\ commentsCurrentPage >= 1 /\ commentsCurrentPage <= Max(1, commentsTotalPages)

\* Both lists navigated to their last page, and PostsList refetched since.
C5_Witness ==
  /\ postsTotalPages = 3 /\ postsCurrentPage = postsTotalPages
  /\ postsRequests >= 2
  /\ commentsCurrentPage = commentsTotalPages

\* C6: each list view renders exactly one of the loading indicator (and
\* then nothing else), the error message with its retry button, and the
\* item list; never the list together with the error message.
C6_OneView ==
  \A r \in {PostsList_render, CommentList_render} :
    /\ Cardinality(r \cap {"spinner", "alert", "items"}) = 1
    /\ "spinner" \in r => r = {"spinner"}
    /\ "alert" \in r => "retry" \in r
    /\ ~("alert" \in r /\ "items" \in r)

\* PostsList shows its error while CommentList shows its items.
C6_Witness ==
  /\ "alert" \in PostsList_render /\ postsError = "Error: 500"
  /\ Len(allPosts) = 25
  /\ "items" \in CommentList_render /\ Len(comments) = 10

\* C7: with N >= 1 posts loaded, totalPages = ceil(N / 10) and page p shows
\* exactly the posts at positions 10(p-1)+1 .. min(10p, N), in server
\* order, each post on one page only, the summary reporting that range of
\* N; 25 posts make 3 pages of 10, 10 and 5.
C7_Slicing ==
  LET N == Len(allPosts)
      p == postsCurrentPage
      first == 10 * (p - 1) + 1
      last == Min(10 * p, N)
      shown == currentPosts
      summary == PostsList_summary
      shownPosts == {shown[j] : j \in 1..Len(shown)}
  IN (N >= 1 /\ p >= 1 /\ p <= postsTotalPages) =>
       /\ 10 * postsTotalPages >= N /\ 10 * (postsTotalPages - 1) < N
       /\ shown = SubSeq(allPosts, first, last)
       /\ \A i \in 1..N : allPosts[i] \in shownPosts <=> ((i - 1) \div 10) + 1 = p
       /\ summary = <<first, last, N>>
       /\ N = 25 =>
            /\ postsTotalPages = 3
            /\ Len(shown) = (IF p = 3 THEN 5 ELSE 10)
            /\ (p = 3 => summary = <<21, 25, 25>>)

\* Page 3 of 25 posts is on screen: 5 posts, "21-25 of 25".
C7_Witness ==
  /\ "items" \in PostsList_render
  /\ Len(allPosts) = 25 /\ postsCurrentPage = 3
  /\ currentPosts = <<21, 22, 23, 24, 25>>
  /\ PostsList_summary = <<21, 25, 25>>

\* C8: a fetch that ends with a non-success status or a transport failure
\* puts the view in its error branch, holding the failure message and
\* showing the retry button; retry issues the same request again (the
\* collection for PostsList, the same offset and limit, those of the
\* current page, for CommentList).
C8_FailureAndRetry ==
  [][ /\ (postsLastSettled' # postsLastSettled
            /\ ~(postsLastSettled'[1].res.kind = "response"
                   /\ postsLastSettled'[1].res.status = 200))
           => /\ postsLastSettled'[1].res.status = 500 => postsError' = "Error: 500"
              /\ Truthy(postsError')
              /\ PostsList_render' = {"alert", "retry"}
      /\ ("retry" \in PostsList_render /\ postsRefreshes' = postsRefreshes + 1)
           => \E r \in postsInFlight' \ postsInFlight :
                /\ postsInFlight' = postsInFlight \cup {r}
                /\ r.url = postsLastSettled[1].req.url
      /\ (commentsLastSettled' # commentsLastSettled
            /\ ~(commentsLastSettled'[1].res.kind = "response"
                   /\ commentsLastSettled'[1].res.status = 200))
           => /\ commentsLastSettled'[1].res.status = 500 => commentsError' = "Error: 500"
              /\ Truthy(commentsError')
              /\ CommentList_render' = {"alert", "retry"}
      /\ ("retry" \in CommentList_render /\ commentsRefreshes' = commentsRefreshes + 1)
           => \E r \in commentsInFlight' \ commentsInFlight :
                /\ commentsInFlight' = commentsInFlight \cup {r}
                /\ r.url = commentsLastSettled[1].req.url
                /\ r.start = commentsLastSettled[1].req.start
                /\ r.limit = commentsLastSettled[1].req.limit
                /\ r.start = (commentsCurrentPage - 1) * 10
    ]_vars

\* The request for page 5 failed with status 500 and retry has sent it again.
C8_Witness ==
  /\ Len(commentsLastSettled) = 1
  /\ commentsLastSettled[1].res.status = 500
  /\ commentsLastSettled[1].req.start = 40
  /\ commentsRefreshes = 1 /\ commentsLoading
  /\ \E r \in commentsInFlight : r.start = 40 /\ r.limit = 10

\* C9: every request CommentList issues carries offset (p - 1) * 10 and
\* limit 10, p being currentPage when the request is issued.
C9_OffsetAndLimit ==
  [][ \A r \in commentsInFlight' \ commentsInFlight :
        /\ r.start = (commentsCurrentPage - 1) * 10
        /\ r.limit = 10
        /\ commentsCurrentPage = 3 => r.start = 20
    ]_vars

\* The request for page 3 is in flight with offset 20 and limit 10.
C9_Witness ==
  /\ commentsCurrentPage = 3
  /\ \E r \in commentsInFlight : r.start = 20 /\ r.limit = 10

\* C10: the counter starts at 0, an increment adds 1 and a reset sets 0, so
\* the value shown is the number of increments since the last reset.
C10_Counter == count = incrementsSinceReset

\* Three increments have been made since the last reset.
C10_Witness == count = 3 /\ incrementsSinceReset = 3

\* C11: a refresh re-enters Loading and refetches.  CommentList refetches
\* the current page and currentPage stays as it was, through the refresh
\* and through the completion of its fetch; PostsList refetches the whole
\* collection and is on page 1 when its list is shown again.
C11_Refresh ==
  [][ /\ postsRefreshes' = postsRefreshes + 1
           => /\ PostsList_render' = {"spinner"}
              /\ \E r \in postsInFlight' \ postsInFlight :
                   postsInFlight' = postsInFlight \cup {r} /\ r.url = postsUrl
      /\ (postsLoading /\ "items" \in PostsList_render')
           => /\ postsCurrentPage' = 1
              /\ allPosts' = postsLastSettled'[1].res.data
      /\ commentsRefreshes' = commentsRefreshes + 1
           => /\ CommentList_render' = {"spinner"}
              /\ commentsCurrentPage' = commentsCurrentPage
              /\ \E r \in commentsInFlight' \ commentsInFlight :
                   /\ commentsInFlight' = commentsInFlight \cup {r}
                   /\ r.start = (commentsCurrentPage - 1) * 10 /\ r.limit = 10
      /\ commentsLastSettled' # commentsLastSettled
           => commentsCurrentPage' = commentsCurrentPage
    ]_vars

\* Both lists were refreshed and show their items again: CommentList still
\* on page 50 with that page's comments, PostsList on page 1.
C11_Witness ==
  /\ postsRefreshes = 1 /\ "items" \in PostsList_render
  /\ Len(allPosts) = 25 /\ postsCurrentPage = 1
  /\ commentsRefreshes = 1 /\ "items" \in CommentList_render
  /\ commentsCurrentPage = 50 /\ comments = Range(491, 500)

\* C12: every fetch of a list view sets loading and clears error when it is
\* issued; on success the items become the response and error is still
\* cleared; on failure error is set and the items are those held before;
\* either way loading is false afterwards.
C12_FetchLifecycle ==
  [][ /\ postsInFlight' \ postsInFlight # {}
           => postsLoading' /\ postsError' = null /\ allPosts' = allPosts
      /\ postsLastSettled' # postsLastSettled
           => /\ IF postsLastSettled'[1].res.kind = "response"
                      /\ postsLastSettled'[1].res.status = 200
                 THEN allPosts' = postsLastSettled'[1].res.data /\ postsError' = null
                 ELSE Truthy(postsError') /\ allPosts' = allPosts
              /\ postsLoading' = FALSE
      /\ commentsInFlight' \ commentsInFlight # {}
           => commentsLoading' /\ commentsError' = null /\ comments' = comments
      /\ commentsLastSettled' # commentsLastSettled
           => /\ IF commentsLastSettled'[1].res.kind = "response"
                      /\ commentsLastSettled'[1].res.status = 200
                 THEN comments' = commentsLastSettled'[1].res.data /\ commentsError' = null
                 ELSE Truthy(commentsError') /\ comments' = comments
              /\ commentsLoading' = FALSE
    ]_vars

\* A refetch of PostsList failed and the 25 posts loaded before are still
\* held; a refetch of CommentList succeeded and replaced its items.
C12_Witness ==
  /\ postsRequests = 2 /\ postsInFlight = {} /\ ~postsLoading
  /\ postsError = "Failed to fetch" /\ Len(allPosts) = 25
  /\ commentsRequests = 2 /\ commentsInFlight = {} /\ ~commentsLoading
  /\ commentsError = null /\ comments = Range(11, 20)

\* C14: with the user acting through the rendered controls, each list view
\* has at most one fetch in flight, and loading is true while it has one.
C14_OneInFlight ==
  /\ Cardinality(postsInFlight) <= 1
  /\ postsInFlight # {} => postsLoading
  /\ Cardinality(commentsInFlight) <= 1
  /\ commentsInFlight # {} => commentsLoading

\* The third request of each view is in flight (after a completed mount
\* fetch and a completed refetch), alone, under the loading branch.
C14_Witness ==
  /\ postsRequests = 3 /\ Cardinality(postsInFlight) = 1
  /\ PostsList_render = {"spinner"}
  /\ commentsRequests = 3 /\ Cardinality(commentsInFlight) = 1
  /\ CommentList_render = {"spinner"}

\* C15: nothing guards a list view against overlapping fetches: when a
\* fetch completes after one issued later than it has completed, it
\* writes its own outcome all the same (items, or error, and loading), so
\* the stale response is what ends up on screen.
C15_StaleOverwrite ==
  [][ /\ (/\ Len(postsLastSettled) = 1
          /\ postsLastSettled' # postsLastSettled
          /\ postsLastSettled'[1].req.id < postsLastSettled[1].req.id)
           => /\ IF postsLastSettled'[1].res.kind = "response"
                      /\ postsLastSettled'[1].res.status = 200
                 THEN allPosts' = postsLastSettled'[1].res.data
                 ELSE Truthy(postsError')
              /\ postsLoading' = FALSE
      /\ (/\ Len(commentsLastSettled) = 1
          /\ commentsLastSettled' # commentsLastSettled
          /\ commentsLastSettled'[1].req.id < commentsLastSettled[1].req.id)
           => /\ IF commentsLastSettled'[1].res.kind = "response"
                      /\ commentsLastSettled'[1].res.status = 200
                 THEN comments' = commentsLastSettled'[1].res.data
                 ELSE Truthy(commentsError')
              /\ commentsLoading' = FALSE
    ]_vars

\* CommentList is on page 2 and shows the comments of page 1: the mount's
\* request completed after the request for page 2.  PostsList shows what
\* its first request returned, which completed after its second.
C15_Witness ==
  /\ commentsRequests = 2 /\ commentsInFlight = {}
  /\ commentsLastSettled[1].req.id = 1
  /\ commentsCurrentPage = 2 /\ comments = Range(1, 10)
  /\ "items" \in CommentList_render
  /\ postsRequests = 2 /\ postsInFlight = {}
  /\ postsLastSettled[1].req.id = 1
  /\ "items" \in PostsList_render

(* ------ SpecLive: effects run and every issued request completes ------ *)
\* React runs a pending effect; the network settles every request that is
\* out (with a response or a rejection).
Fairness ==
  /\ WF_vars(PostsMount) /\ WF_vars(PostsSettle)
  /\ WF_vars(CommentsEffect) /\ WF_vars(CommentsSettle)

SpecLive == Init /\ [][Next]_vars /\ Fairness

PostsSettledReady ==
  /\ ~postsLoading
  /\ postsLastSettled # <<>>
  /\ IF Succeeds(postsLastSettled[1].res)
     THEN "items" \in PostsList_render /\ postsError = null
     ELSE "alert" \in PostsList_render
            /\ postsError = ErrorMessage(postsLastSettled[1].res)

CommentsSettledReady ==
  /\ ~commentsLoading
  /\ commentsLastSettled # <<>>
  /\ IF Succeeds(commentsLastSettled[1].res)
     THEN "items" \in CommentList_render /\ commentsError = null
     ELSE "alert" \in CommentList_render
            /\ commentsError = ErrorMessage(commentsLastSettled[1].res)

\* C16: when effects run and every issued request completes, a list view
\* that is loading reaches a state where loading is false, and that state
\* shows the list if the request that completed succeeded and the alert
\* with the failure's message if it failed.
C16_LoadingEnds ==
  /\ postsLoading ~> PostsSettledReady
  /\ commentsLoading ~> CommentsSettledReady

C16_Witness ==
  /\ PostsSettledReady /\ ~Succeeds(postsLastSettled[1].res)
  /\ CommentsSettledReady /\ Succeeds(commentsLastSettled[1].res)
  /\ postsRequests = 2 /\ commentsRequests = 2

\* C17: in PostsList a step that changes currentPage without a fetch
\* completing (a click on a page number, "Anterior" or "Siguiente") leaves
\* loading, error, the stored posts and the requests unchanged, and the
\* list is rendered before and after it.
C17_NavigationFrame ==
  [][ (postsCurrentPage' # postsCurrentPage /\ postsLastSettled' = postsLastSettled)
        => /\ UNCHANGED <<allPosts, postsLoading, postsError, postsInFlight, postsRequests>>
           /\ "items" \in PostsList_render
           /\ "items" \in PostsList_render' ]_vars

\* Page 2 of 11 posts, reached by navigation after the only fetch.
C17_Witness ==
  /\ Len(allPosts) = 11 /\ postsCurrentPage = 2 /\ Len(currentPosts) = 1
  /\ postsRequests = 1 /\ ~postsLoading /\ postsError = null

\* C18: the pagination block is rendered exactly when totalPages > 1;
\* when it is, a separate page-1 button precedes the window exactly when
\* the window starts above 1, with an ellipsis after it exactly when the
\* window starts above 2, and the same at the tail for totalPages; there
\* are at most 7 page buttons, no page number has two buttons, and the one
\* active button is currentPage's.
C18_PaginationBlock ==
  winDone =>
    LET cs == winControls
        w == winResult
        idx(kinds) == {i \in 1..Len(cs) : cs[i].kind \in kinds}
        numbered == idx({"first", "number", "last"})
        firstNumber == CHOOSE i \in idx({"number"}) : \A j \in idx({"number"}) : i <= j
        lastNumber == CHOOSE i \in idx({"number"}) : \A j \in idx({"number"}) : i >= j
    IN /\ (cs # <<>>) <=> (winTotalPages > 1)
       /\ (winTotalPages > 1) =>
            /\ [i \in 1..Len(w) |-> cs[firstNumber + i - 1].page] = w
            /\ Cardinality(idx({"number"})) = Len(w)
            /\ (idx({"first"}) # {}) <=> (w[1] > 1)
            /\ \A i \in idx({"first"}) : cs[i].page = 1 /\ i < firstNumber
            /\ (\E i \in idx({"ellipsis"}) : i < firstNumber) <=> (w[1] > 2)
            /\ (idx({"last"}) # {}) <=> (w[Len(w)] < winTotalPages)
            /\ \A i \in idx({"last"}) : cs[i].page = winTotalPages /\ i > lastNumber
            /\ (\E i \in idx({"ellipsis"}) : i > lastNumber)
                 <=> (w[Len(w)] < winTotalPages - 1)
            /\ Cardinality(numbered) <= 7
            /\ \A i, j \in numbered : cs[i].page = cs[j].page => i = j
            /\ \E i \in numbered :
                 /\ cs[i].page = winCurrentPage
                 /\ \A j \in 1..Len(cs) : cs[j].active <=> (j = i)

\* Page 25 of 50: 1 ... 23 24 25 26 27 ... 50 between "Anterior" and
\* "Siguiente", seven page buttons, 25 active.
C18_Witness ==
  /\ winDone /\ winTotalPages = 50 /\ winCurrentPage = 25
  /\ Len(winControls) = 11
  /\ [i \in 1..11 |-> winControls[i].page] = <<0, 1, 0, 23, 24, 25, 26, 27, 0, 50, 0>>
  /\ winControls[6].active

\* C19: a fetch that fails leaves its view in the error branch with no
\* request out and none issued by the failure; while the error branch is
\* shown, the only step that changes the view or issues a request is the
\* retry button (for CommentList, or a change of page), which issues one.
C19_NoAutomaticRetry ==
  [][ /\ (postsLastSettled' # postsLastSettled
            /\ ~Succeeds(postsLastSettled'[1].res))
           => /\ "alert" \in PostsList_render'
              /\ postsInFlight' = {} /\ ~postsEffect'
              /\ postsRequests' = postsRequests
      /\ ("alert" \in PostsList_render
            /\ <<postsVars, postsNet>>' # <<postsVars, postsNet>>)
           => /\ postsRefreshes' = postsRefreshes + 1
              /\ postsRequests' = postsRequests + 1
      /\ (commentsLastSettled' # commentsLastSettled
            /\ ~Succeeds(commentsLastSettled'[1].res))
           => /\ "alert" \in CommentList_render'
              /\ commentsInFlight' = {} /\ ~commentsEffect'
              /\ commentsRequests' = commentsRequests
      /\ ("alert" \in CommentList_render
            /\ <<commentsVars, commentsNet>>' # <<commentsVars, commentsNet>>)
           => /\ \/ commentsRefreshes' = commentsRefreshes + 1
                 \/ commentsPageChanges' = commentsPageChanges + 1
              /\ commentsRequests' + (IF commentsEffect' THEN 1 ELSE 0)
                   = commentsRequests + 1
    ]_vars

\* Both views show their alert after a failed retry: two requests each,
\* none out.
C19_Witness ==
  /\ "alert" \in PostsList_render /\ "alert" \in CommentList_render
  /\ postsRequests = 2 /\ postsRefreshes = 1 /\ postsInFlight = {}
  /\ commentsRequests = 2 /\ commentsRefreshes = 1 /\ commentsInFlight = {}

\* C20: a step that changes the state of one list view (items, currentPage,
\* loading, error, its requests) leaves the other list view and the counter
\* unchanged, and a step that changes the counter leaves both list views
\* unchanged and issues no request.
C20_NoSharedState ==
  [][ /\ (<<postsVars, postsNet>>' # <<postsVars, postsNet>>)
           => UNCHANGED <<commentsVars, commentsNet, count>>
      /\ (<<commentsVars, commentsNet>>' # <<commentsVars, commentsNet>>)
           => UNCHANGED <<postsVars, postsNet, count>>
      /\ (count' # count)
           => UNCHANGED <<postsVars, postsNet, commentsVars, commentsNet>>
    ]_vars

\* The counter stands at 2 with both lists on their second page.
C20_Witness ==
  /\ count = 2 /\ incrementsSinceReset = 2
  /\ postsCurrentPage = 2 /\ "items" \in PostsList_render
  /\ commentsCurrentPage = 2 /\ "items" \in CommentList_render

\* C21: whenever CommentList renders its list (loading false, no error),
\* the comments shown are the response to the request for the current
\* value of currentPage, the commit between a page change and the start of
\* its fetch included.
C21_ItemsMatchPage ==
  "items" \in CommentList_render =>
    /\ commentsLastSettled # <<>>
    /\ commentsLastSettled[1].req.start = (commentsCurrentPage - 1) * commentsPerPage
    /\ comments = commentsLastSettled[1].res.data

\* The same agreement outside the commit that precedes the page effect.
C21_ItemsMatchPageAfterEffect ==
  ("items" \in CommentList_render /\ ~commentsEffect) =>
    /\ commentsLastSettled # <<>>
    /\ commentsLastSettled[1].req.start = (commentsCurrentPage - 1) * commentsPerPage
    /\ comments = commentsLastSettled[1].res.data

\* C22: whenever PostsList renders its list with the summary, the summary
\* reads first = 10 (currentPage - 1) + 1, last = min(10 currentPage, total)
\* and total = the number of posts held, with 1 <= first <= last <= total,
\* also after the endpoint returned an empty collection.
C22_SummaryRange ==
  "summary" \in PostsList_render =>
    LET summary == PostsList_summary
        first == summary[1]
        last == summary[2]
        total == summary[3]
    IN /\ first = 10 * (postsCurrentPage - 1) + 1
       /\ last = Min(10 * postsCurrentPage, total)
       /\ total = Len(allPosts)
       /\ 1 <= first /\ first <= last /\ last <= total

\* The same range for a collection that is not empty.
C22_SummaryRangeNonEmpty ==
  ("summary" \in PostsList_render /\ Len(allPosts) > 0) =>
    LET summary == PostsList_summary
    IN /\ summary[1] = 10 * (postsCurrentPage - 1) + 1
       /\ summary[2] = Min(10 * postsCurrentPage, summary[3])
       /\ summary[3] = Len(allPosts)
       /\ 1 <= summary[1] /\ summary[1] <= summary[2] /\ summary[2] <= summary[3]

====
